---------------------------- MODULE Spec2Model ----------------------------
(***************************************************************************)
(* db2graphql: the DB2Graphql facade (src/src/db2g.js) over the Schema     *)
(* Compiler, the Generic Resolver Engine and a database adapter.           *)
(*                                                                         *)
(* The facade is modelled from its source.  The Compiler, the Resolver and *)
(* the adapters are required by db2g.js (lines 1-4) but their files are    *)
(* not part of the source tree at hand; their behaviour is modelled from   *)
(* the design document (sections 3, 4.1-4.5) and marked as such below.     *)
(*                                                                         *)
(* Names (types, fields, columns) are sequences of tokens, so that         *)
(* trimming, splitting and joining are computed, not assumed.              *)
(***************************************************************************)
EXTENDS Integers, Sequences, FiniteSets, TLC

VARIABLES
  connection,   \* this.connection: the Knex handle given to the constructor
  dbSchema,     \* this.dbSchema: the Schema Descriptor held by the facade
  gqlSchema,    \* this.gqlSchema: the cached schema text
  dbDriver,     \* this.dbDriver: the adapter instance bound to the facade
  compiler,     \* this.compiler: dbSchema, dbDriver, type and input registries
  resolver,     \* this.resolver: dbDriver, resolver map, before-hook
  inflight,     \* connect calls suspended at their await (line 173)
  created,      \* number of adapter instances constructed so far
  rows,         \* the rows of the database tables behind the Knex handle
  observed,     \* bookkeeping: counters and the arguments of the last onBefore
  lastOp        \* the last completed facade call and what its caller got

vars == <<connection, dbSchema, gqlSchema, dbDriver, compiler, resolver,
          inflight, created, rows, observed, lastOp>>

----------------------------------------------------------------------------
(* Bounds of the model *)

\* adapter instances (connect calls passing the guards) per behaviour
MaxConnects == 2

\* the same, where connecting only sets the scene for the before-hook
HookConnects == 1

\* connect calls that may be suspended at their await at the same time
MaxInflight == 2

\* primary-key values a table may hold, 1..MaxRows
MaxRows == 3

----------------------------------------------------------------------------
(* Values *)

Null == "null"

\* a name made of a single token
N(tok) == <<tok>>

\* this.drivers (constructor): the client keys that select an adapter
drivers == {"pg", "mysql"}

\* client keys a Knex handle can carry
Clients == {"pg", "mysql", "sqlite3"}

\* config.connection.database of the handle
Databases == {Null, "appdb"}

\* db = null: the facade is constructed without a handle
NoConnection == [client |-> Null, database |-> Null]

\* the handles a facade may be constructed with
Connections == {NoConnection} \cup [client : Clients, database : Databases]

\* the API name given to the constructor ('' : none)
ApiNames == {"", "blog-api"}

\* resolver callbacks handed to add/addField
Handlers == {"h1", "h2"}

\* what a resolver callback returns when it is invoked
HandlerResult(h) == <<"result of", h>>

\* return types handed to add/addField
Returns == {"String"}

\* type and field names handed to add
TypeNames == {N("Query")}
FieldNames == {N("getUser")}

\* paths handed to addField/addInput, as sequences of characters; "." and " "
\* are the dot and the blank, every other token stands for a run of letters
Paths ==
  { <<"Query", ".", "getUser">>,
    <<" ", "Users", ".", "fullname", " ">>,
    <<"Query", ".", ".", "getUser">>,
    <<"A", ".", "Users", ".", "fullname">>,
    <<"Query">>,
    <<".", "getUser">>,
    <<"Users", ".", " ">>,
    <<" ">>,
    << >> }

\* sub-types handed to addInput
SubTypes == {"String"}

\* namespaces handed to connect ('' : the argument is omitted)
Namespaces == {"", "tenant"}

\* errors the adapter's getSchema may fail with
AdapterErrors == {"ECONNREFUSED", "permission denied"}

\* validators handed to onBefore: what each returns for (type, field)
Validators == {"denyAll", "denyQuery"}

validatorReturns(v, type, field) ==
  CASE v = "denyAll"   -> FALSE
    [] v = "denyQuery" -> type # N("Query")

\* rejected callbacks handed to onBefore (Null: the argument is omitted)
Rejecteds == {"rejectA", "rejectB"}

rejectedReturns(r) == <<"rejected by", r>>

----------------------------------------------------------------------------
(* String helpers of addField/addInput: path.trim().split('.').filter(i => !!i) *)

RECURSIVE trimStart(_)
trimStart(s) ==
  IF s # << >> /\ Head(s) = " " THEN trimStart(Tail(s)) ELSE s

RECURSIVE trimEnd(_)
trimEnd(s) ==
  IF s # << >> /\ s[Len(s)] = " " THEN trimEnd(SubSeq(s, 1, Len(s) - 1)) ELSE s

trim(s) == trimEnd(trimStart(s))

\* String.prototype.split('.'): the pieces between the dots, empty ones kept
RECURSIVE split(_, _, _)
split(s, cur, acc) ==
  IF s = << >> THEN Append(acc, cur)
  ELSE IF Head(s) = "." THEN split(Tail(s), << >>, Append(acc, cur))
  ELSE split(Tail(s), Append(cur, Head(s)), acc)

\* filter(i => !!i): the empty string is the only falsy piece
filterNonEmpty(pieces) == SelectSeq(pieces, LAMBDA p : p # << >>)

segmentsOf(path) == filterNonEmpty(split(trim(path), << >>, << >>))

\* segments.pop() twice: the last segment is the field, the one before the type
fieldOf(segs) == segs[Len(segs)]
typeOf(segs) == segs[Len(segs) - 1]

----------------------------------------------------------------------------
(* Functions with a growing domain: obj[key] = value *)

put(f, k, v) == [x \in DOMAIN f \cup {k} |-> IF x = k THEN v ELSE f[x]]

Empty == [x \in {} |-> Null]

\* this.gqlSchema = null
NullText == [kind |-> "null"]

\* null driver: this.dbDriver = null
NoDriver == 0

----------------------------------------------------------------------------
(* Compiler and Resolver: contracts of the design document *)

\* Compiler.addType(typeName, fieldName, returnType, argsSchema): inserts or
\* overwrites the field entry of the Compiled Type Registry
addType(c, type, field, returns, params) ==
  [c EXCEPT !.types = put(c.types, <<type, field>>,
                          [returns |-> returns, params |-> params])]

\* Compiler.addInput(typeName, fieldName, subType): same, input namespace
compilerAddInput(c, type, field, subType) ==
  [c EXCEPT !.inputs = put(c.inputs, <<type, field>>, subType)]

\* Resolver.add / on(type, field, handler): replaces the resolver map entry
resolverAdd(r, type, field, handler) ==
  [r EXCEPT !.resolvers = put(r.resolvers, <<type, field>>, handler)]


----------------------------------------------------------------------------
(* Schema Descriptors (design document, section 3): per table the ordered  *)
(* columns and the foreign keys.  A column name such as author_id is the   *)
(* token sequence <<"author", "_", "id">>.                                 *)

Col(a) == <<a>>
ColId(a) == <<a, "_", "id">>

\* what introspection may find: the blog database, and the same server after
\* its structure was changed to a shop
SchemaDescriptors == {"blog", "shop"}

\* the tables of a descriptor, in the adapter's order
tablesOf(d) ==
  IF d = "blog"
    THEN <<N("users"), N("categories"), N("posts"), N("comments"), N("notes")>>
    ELSE <<N("users"), N("orders")>>

\* the ordered column names of a table
columnsOf(d, t) ==
  CASE d = "blog" /\ t = N("users")      -> <<Col("id"), Col("username")>>
    [] d = "blog" /\ t = N("categories") ->
         <<Col("id"), Col("title"), ColId("parent")>>
    [] d = "blog" /\ t = N("posts")      ->
         <<Col("id"), Col("title"), Col("body"), ColId("users"), ColId("categories")>>
    [] d = "blog" /\ t = N("comments")   ->
         <<Col("id"), ColId("author"), ColId("approver"),
           Col("reviewer"), ColId("reviewer")>>
    [] d = "blog" /\ t = N("notes")      ->
         <<Col("id"), Col("author"), ColId("author"),
           <<"author", "_", "author">>, <<"author", "_", "author", "_", "id">>>>
    [] d = "shop" /\ t = N("orders")     ->
         <<Col("id"), ColId("users"), Col("total")>>
    [] OTHER -> <<Col("id")>>

\* the table a column references (Null: the column is no foreign key)
referencedTable(d, t, c) ==
  CASE d = "blog" /\ t = N("categories") /\ c = ColId("parent") -> N("categories")
    [] d = "blog" /\ t = N("posts") /\ c = ColId("users")       -> N("users")
    [] d = "blog" /\ t = N("posts") /\ c = ColId("categories")  -> N("categories")
    [] d = "blog" /\ t = N("comments")
         /\ c \in {ColId("author"), ColId("approver"),
                   Col("reviewer"), ColId("reviewer")}           -> N("users")
    [] d = "blog" /\ t = N("notes")
         /\ c \in {Col("author"), ColId("author")}               -> N("users")
    [] d = "shop" /\ t = N("orders") /\ c = ColId("users")       -> N("users")
    [] OTHER -> Null

Range(s) == {s[i] : i \in 1..Len(s)}

\* the foreign-key columns of a table, in column order
foreignKeysOf(d, t) ==
  SelectSeq(columnsOf(d, t), LAMBDA c : referencedTable(d, t, c) # Null)

----------------------------------------------------------------------------
(* Relation Naming Algorithm (design document, section 4.3) *)

\* C stripped of the foreign-key suffix convention _id
stripSuffix(c) ==
  IF Len(c) > 2 /\ SubSeq(c, Len(c) - 1, Len(c)) = <<"_", "id">>
    THEN SubSeq(c, 1, Len(c) - 2)
    ELSE c

\* candidate field name: categories_id on posts -> categories
candidateName(c, r) == stripSuffix(c)

\* the short deterministic hash of the full (T, C, R) tuple, kept symbolic
hashOf(t, c, r) == <<"#">> \o t \o <<"#">> \o c \o <<"#">> \o r

\* the name of one relation given the names already assigned on the type
relationName(assigned, t, c, r) ==
  LET candidate == candidateName(c, r)
      withColumn == candidate \o <<"_">> \o c
  IN  IF candidate \notin assigned THEN candidate
      ELSE IF withColumn \notin assigned THEN withColumn
      ELSE withColumn \o <<"_">> \o hashOf(t, c, r)

\* the relation names of one table: foreign keys in column order, the
\* per-type set of assigned names starting from the column fields
RECURSIVE nameRelations(_, _, _, _, _)
nameRelations(d, t, fks, assigned, acc) ==
  IF fks = << >> THEN acc
  ELSE LET c == Head(fks)
           name == relationName(assigned, t, c, referencedTable(d, t, c))
       IN  nameRelations(d, t, Tail(fks), assigned \cup {name},
                         put(acc, <<t, c>>, name))

\* the Name-Resolution Table of a descriptor: (table, fk column) -> field name
RECURSIVE nameTable(_, _, _)
nameTable(d, tables, acc) ==
  IF tables = << >> THEN acc
  ELSE LET t == Head(tables)
       IN  nameTable(d, Tail(tables),
             nameRelations(d, t, foreignKeysOf(d, t), Range(columnsOf(d, t)), acc))

\* Compiler.buildSchema(): derives the database-backed types and the
\* Name-Resolution Table from this.dbSchema, rebuilt together on every call
buildSchema(c) ==
  [c EXCEPT !.builtFrom = c.dbSchema,
            !.relations = IF c.dbSchema = Null THEN Empty
                          ELSE nameTable(c.dbSchema, tablesOf(c.dbSchema), Empty)]


\* the database-backed section of the schema text: omitted, or the types
\* built from a descriptor together with their relation fields
OmittedSection == [emitted |-> FALSE, from |-> Null, relations |-> Empty]

\* Compiler.getSDL(refresh, hasConnection): the text of the current registry
\* (its cache is dropped when the registry changes, so what it returns is the
\* rendering of the registry as it is); without a connection only the types
\* and inputs added by hand are rendered
getSDL(c, refresh, hasConnection) ==
  [kind |-> "text", types |-> c.types, inputs |-> c.inputs,
   database |-> IF hasConnection
                  THEN [emitted |-> TRUE, from |-> c.builtFrom,
                        relations |-> c.relations]
                  ELSE OmittedSection]

\* the text that renders nothing is the empty string
EmptyText == [kind |-> "text", types |-> Empty, inputs |-> Empty,
              database |-> OmittedSection]

\* !this.gqlSchema: null and '' are falsy
falsyText(t) == t = NullText \/ t = EmptyText

\* the fields the Compiler generates for a descriptor, each resolved by the
\* Resolver's default implementation: per table a paginated list, a lookup and
\* a put, and one relation field per foreign key
generatedFields(d, relations) ==
  IF d = Null THEN {}
  ELSE UNION { { <<N("Query"), <<"getPage">> \o t>>,
                 <<N("Query"), <<"getFirstOf">> \o t>>,
                 <<N("Mutation"), <<"putItem">> \o t>> } : t \in Range(tablesOf(d)) }
       \cup { <<k[1], relations[k]>> : k \in DOMAIN relations }

\* Resolver.getResolvers(hasConnection): the overrides, over the default
\* implementations of the generated fields when there is a connection
resolverGetResolvers(r, c, hasConnection) ==
  LET generated == IF hasConnection /\ r.dbDriver # NoDriver
                     THEN generatedFields(c.builtFrom, c.relations) ELSE {}
  IN  [k \in generated \cup DOMAIN r.resolvers |->
         IF k \in DOMAIN r.resolvers THEN r.resolvers[k] ELSE "default"]

\* one field resolution through the resolver map entry of (type, field): the
\* before-hook gate, then the resolver
resolveField(r, handler, type, field) ==
  LET hook == r.beforeHook
      validated == hook.validator = Null
                   \/ validatorReturns(hook.validator, type, field)
  IN  IF validated
        THEN [validated |-> TRUE, invoked |-> handler,
              value |-> HandlerResult(handler)]
        ELSE [validated |-> FALSE, invoked |-> Null,
              value |-> IF hook.rejected = Null THEN <<Null>>
                        ELSE rejectedReturns(hook.rejected)]

----------------------------------------------------------------------------
(* Generic Resolver Engine (design document, sections 4.4 and 6): the      *)
(* primitives behind the generated fields.  A table is a function from the *)
(* primary-key value to the row; a row is a function from column to value. *)

\* page size when the request names none, and the upper bound of a page size
DefaultLimit == 1
MaxLimit == 2

\* the primary-key column of a table (isPrimaryKey of the descriptor)
primaryKeyOf(t) == Col("id")

\* the value a column takes when a write does not supply it
defaultOf(c) == Null

\* getFirstOf's not-found indication: null
NoRow == [c \in {N("null")} |-> Null]

\* the arguments of a write to users: id (0: not supplied) and username
\* ('': not supplied)
argsWith(id, name) ==
  LET supplied == (IF id = 0 THEN {} ELSE {Col("id")})
                    \cup (IF name = "" THEN {} ELSE {Col("username")})
  IN  [c \in supplied |-> IF c = Col("id") THEN id ELSE name]

\* a value as it is written in a filter string
str(c, v) == IF c = Col("id") THEN <<ToString(v)>> ELSE <<v>>

\* String.prototype.split(sep) over the characters of a request string
RECURSIVE splitOn(_, _, _, _)
splitOn(s, sep, cur, acc) ==
  IF s = << >> THEN Append(acc, cur)
  ELSE IF Head(s) = sep THEN splitOn(Tail(s), sep, << >>, Append(acc, cur))
  ELSE splitOn(Tail(s), sep, Append(cur, Head(s)), acc)

\* one segment "<scope>:<key>=<value>" or "<key>=<value>" of a filter or
\* pagination string; a segment without scope belongs to the root table
parseSegment(seg, root) ==
  LET scoped == splitOn(seg, ":", << >>, << >>)
      scope == IF Len(scoped) > 1 THEN scoped[1] ELSE root
      rest == IF Len(scoped) > 1 THEN scoped[2] ELSE scoped[1]
      pair == splitOn(rest, "=", << >>, << >>)
  IN  [scope |-> scope, key |-> pair[1],
       value |-> IF Len(pair) > 1 THEN pair[2] ELSE << >>]

\* the segments of a request string that are scoped to table t
segmentsFor(text, t) ==
  IF text = << >> THEN << >>
  ELSE LET all == splitOn(text, "|", << >>, << >>)
           parsed == [i \in 1..Len(all) |-> parseSegment(all[i], t)]
       IN  SelectSeq(parsed, LAMBDA g : g.scope = t)

\* the driver's natural order: ascending primary key
RECURSIVE ordered(_)
ordered(S) ==
  IF S = {} THEN << >>
  ELSE LET m == CHOOSE x \in S : \A y \in S : x <= y
       IN  <<m>> \o ordered(S \ {m})

\* the primary keys of the rows of tbl that satisfy every condition
matching(tbl, conds) ==
  { k \in DOMAIN tbl :
      \A i \in 1..Len(conds) :
        /\ conds[i].key \in DOMAIN tbl[k]
        /\ str(conds[i].key, tbl[k][conds[i].key]) = conds[i].value }

\* getFirstOf(table, args): the first matching row, or null
getFirstOf(tbl, t, filter) ==
  LET found == ordered(matching(tbl, segmentsFor(filter, t)))
  IN  IF found = << >> THEN NoRow ELSE tbl[found[1]]

\* a page size written in decimal
parseLimit(text) ==
  IF Len(text) = 1 /\ \E n \in 0..9 : ToString(n) = text[1]
    THEN CHOOSE n \in 0..9 : ToString(n) = text[1]
    ELSE DefaultLimit

\* limitFor that hands the asked page size to the driver as it is
limitFor_Unclamped(pagination, t) ==
  LET given == SelectSeq(segmentsFor(pagination, t),
                         LAMBDA g : g.key = <<"limit">>)
  IN  IF given = << >> THEN DefaultLimit ELSE parseLimit(given[1].value)

\* the page size of table t in a pagination string, clamped to the bound
limitFor(pagination, t) ==
  LET given == SelectSeq(segmentsFor(pagination, t),
                         LAMBDA g : g.key = <<"limit">>)
      asked == IF given = << >> THEN DefaultLimit ELSE parseLimit(given[1].value)
  IN  IF asked > MaxLimit THEN MaxLimit ELSE asked

\* getPage(table, args): { total, items }
getPage(tbl, t, filter, pagination) ==
  LET found == ordered(matching(tbl, segmentsFor(filter, t)))
      limit == limitFor(pagination, t)
  IN  [total |-> Len(found),
       items |-> [i \in 1..(IF Len(found) < limit THEN Len(found) ELSE limit)
                    |-> tbl[found[i]]]]

\* the key the database generates for a row inserted without one
generatedKey(tbl) ==
  IF DOMAIN tbl = {} THEN 1
  ELSE 1 + CHOOSE x \in DOMAIN tbl : \A y \in DOMAIN tbl : y <= x

\* putItem that never looks for an existing row: every write is an insert
\* under a generated key
putItem_AlwaysInserts(tbl, cols, pk, args) ==
  LET key == generatedKey(tbl)
      row == [c \in Range(cols) |->
                IF c = pk THEN key
                ELSE IF c \in DOMAIN args THEN args[c] ELSE defaultOf(c)]
  IN  [table |-> put(tbl, key, row), row |-> row]

\* putItem(table, args): updates the row of the supplied primary key when it
\* exists, inserts otherwise; only supplied columns are written; returns the
\* resulting row
putItem(tbl, cols, pk, args) ==
  IF pk \in DOMAIN args /\ args[pk] \in DOMAIN tbl
    THEN LET row == [c \in Range(cols) |->
                       IF c \in DOMAIN args THEN args[c] ELSE tbl[args[pk]][c]]
         IN  [table |-> [tbl EXCEPT ![args[pk]] = row], row |-> row]
    ELSE LET key == IF pk \in DOMAIN args THEN args[pk] ELSE generatedKey(tbl)
             row == [c \in Range(cols) |->
                       IF c = pk THEN key
                       ELSE IF c \in DOMAIN args THEN args[c] ELSE defaultOf(c)]
         IN  [table |-> put(tbl, key, row), row |-> row]

----------------------------------------------------------------------------
(* The facade: src/src/db2g.js *)

\* the part of the facade that add, addField and addInput work on
this == [compiler |-> compiler, resolver |-> resolver]

\* add with the arguments of resolver.add in the wrong order
add_SwapsTypeAndField(st, type, field, returns, rsv, params) ==
  [compiler |-> addType(st.compiler, type, field, returns, params),
   resolver |-> resolverAdd(st.resolver, field, type, rsv)]

\* add(type, field, returns, resolver, params), lines 96-100
add(st, type, field, returns, rsv, params) ==
  [compiler |-> addType(st.compiler, type, field, returns, params),
   resolver |-> resolverAdd(st.resolver, type, field, rsv)]

\* addField with the length check off by one: a single segment passes, its
\* type popped from the emptied array is undefined
addField_AcceptsOneSegment(st, path, returns, rsv, params) ==
  LET segments == segmentsOf(path)
  IN  IF Len(segments) < 1
        THEN [threw |-> "addField path must be in format Type.field", st |-> st]
        ELSE [threw |-> Null,
              st |-> add(st, IF Len(segments) < 2 THEN N("undefined")
                             ELSE typeOf(segments),
                         fieldOf(segments), returns, rsv, params)]

\* addField(path, returns, resolver, params), lines 68-75
addField(st, path, returns, rsv, params) ==
  LET segments == segmentsOf(path)
  IN  IF Len(segments) < 2
        THEN [threw |-> "addField path must be in format Type.field", st |-> st]
        ELSE [threw |-> Null,
              st |-> add(st, typeOf(segments), fieldOf(segments), returns, rsv, params)]

\* addInput(path, subType), lines 118-125
addInput(st, path, subType) ==
  LET segments == segmentsOf(path)
  IN  IF Len(segments) < 2
        THEN [threw |-> "addInput path must be in format Input.field", st |-> st]
        ELSE [threw |-> Null,
              st |-> [st EXCEPT !.compiler =
                        compilerAddInput(st.compiler, typeOf(segments),
                                         fieldOf(segments), subType)]]

\* onBefore that stores the rejected callback only
onBefore_KeepsValidator(r, validator, rejected) ==
  [r EXCEPT !.beforeHook.rejected =
     IF rejected # Null THEN rejected ELSE r.beforeHook.rejected]

\* onBefore(validator, rejected), lines 147-150
onBefore(r, validator, rejected) ==
  [r EXCEPT !.beforeHook =
     [validator |-> validator,
      rejected |-> IF rejected # Null THEN rejected ELSE r.beforeHook.rejected]]

\* withBuilder(), lines 232-322: five add calls on Query
withBuilder(st) ==
  LET s1 == add(st, N("Query"), N("getSchema"), "String", "builder.getSchema", "{}")
      s2 == add(s1, N("Query"), N("addSchemaColumn"), "Boolean",
                "builder.addSchemaColumn", "tablename,columnname,type,foreign")
      s3 == add(s2, N("Query"), N("dropSchemaColumn"), "Boolean",
                "builder.dropSchemaColumn", "tablename,columnname")
      s4 == add(s3, N("Query"), N("addSchemaTable"), "Boolean",
                "builder.addSchemaTable", "tablename,primary,type,increments")
  IN  add(s4, N("Query"), N("dropSchemaTable"), "Boolean",
          "builder.dropSchemaTable", "tablename")

\* !!this.connection
hasConnection == connection # NoConnection

\* getResolvers(), lines 202-204
getResolvers == resolverGetResolvers(resolver, compiler, hasConnection)

\* getSchema that tells the compiler there is a connection
getSchema_AssumesConnection(refresh) ==
  IF falsyText(gqlSchema) \/ refresh
    THEN getSDL(compiler, refresh, TRUE)
    ELSE gqlSchema

\* getSchema(refresh), lines 216-221: the new value of this.gqlSchema, which
\* is also what the call returns
getSchema(refresh) ==
  IF falsyText(gqlSchema) \/ refresh
    THEN getSDL(compiler, refresh, hasConnection)
    ELSE gqlSchema

\* new Compiler(), new Resolver() as the constructor leaves them
NewCompiler ==
  [dbSchema |-> Null, dbDriver |-> NoDriver, types |-> Empty, inputs |-> Empty,
   builtFrom |-> Null, relations |-> Empty]

NewResolver ==
  [dbDriver |-> NoDriver, resolvers |-> Empty,
   beforeHook |-> [validator |-> Null, rejected |-> Null]]

\* constructor(name, db), lines 32-48
constructor(name, db) ==
  LET st0 == [compiler |-> NewCompiler, resolver |-> NewResolver]
      st == IF name # ""
              THEN add(st0, N("Query"), N("getAPIName"), "String", "apiName", "{}")
              ELSE st0
  IN  /\ connection = db
      /\ dbSchema = Null
      /\ gqlSchema = NullText
      /\ dbDriver = NoDriver
      /\ compiler = st.compiler
      /\ resolver = st.resolver


\* connect without the check of the driver table
connectThrows_HandleOnly(conn) ==
  IF conn = NoConnection THEN "Invalid Knex instance" ELSE Null

\* lines 161-167 of connect: the error thrown before any adapter is
\* constructed (Null: none)
connectThrows(conn) ==
  IF conn = NoConnection THEN "Invalid Knex instance"
  ELSE IF conn.client \notin drivers THEN "Database driver not available"
  ELSE Null

\* line 170 of connect: namespace || config.connection.database || 'public'
namespaceOf(conn, namespace) ==
  IF namespace # "" THEN namespace
  ELSE IF conn.database # Null THEN conn.database
  ELSE "public"

----------------------------------------------------------------------------
(* Calls of the facade, one action per call or continuation *)

InitWith(names, dbs) ==
  /\ \E name \in names, db \in dbs : constructor(name, db)
  /\ inflight = {}
  /\ created = 0
  /\ rows = [t \in {N("users")} |-> Empty]
  /\ observed = [onBefore |-> [called |-> FALSE, validator |-> Null, rejected |-> Null],
                 adapterCalls |-> 0, builds |-> 0, compiled |-> Empty,
                 latest |-> [id |-> 0, schema |-> Null], namespace |-> Null]
  /\ lastOp = [op |-> "constructor", threw |-> Null]

Init == InitWith(ApiNames, Connections)

CallAdd(type, field, returns, rsv) ==
  LET st == add(this, type, field, returns, rsv, "{}")
  IN  /\ compiler' = st.compiler
      /\ resolver' = st.resolver
      /\ lastOp' = [op |-> "add", threw |-> Null, key |-> <<type, field>>,
                    rsv |-> rsv]
      /\ UNCHANGED <<rows, connection, dbSchema, gqlSchema, dbDriver, inflight,
                     created, observed>>

CallAddField(path, returns, rsv) ==
  LET r == addField(this, path, returns, rsv, "{}")
  IN  /\ compiler' = r.st.compiler
      /\ resolver' = r.st.resolver
      /\ lastOp' = [op |-> "addField", threw |-> r.threw, path |-> path,
                    rsv |-> rsv]
      /\ UNCHANGED <<rows, connection, dbSchema, gqlSchema, dbDriver, inflight,
                     created, observed>>

CallAddInput(path, subType) ==
  LET r == addInput(this, path, subType)
  IN  /\ compiler' = r.st.compiler
      /\ resolver' = r.st.resolver
      /\ lastOp' = [op |-> "addInput", threw |-> r.threw, path |-> path]
      /\ UNCHANGED <<rows, connection, dbSchema, gqlSchema, dbDriver, inflight,
                     created, observed>>

CallWithBuilder ==
  LET st == withBuilder(this)
  IN  /\ compiler' = st.compiler
      /\ resolver' = st.resolver
      /\ lastOp' = [op |-> "withBuilder", threw |-> Null]
      /\ UNCHANGED <<rows, connection, dbSchema, gqlSchema, dbDriver, inflight,
                     created, observed>>

CallOnBefore(validator, rejected) ==
  /\ resolver' = onBefore(resolver, validator, rejected)
  /\ observed' = [observed EXCEPT !.onBefore =
                    [called |-> TRUE, validator |-> validator, rejected |-> rejected]]
  /\ lastOp' = [op |-> "onBefore", threw |-> Null]
  /\ UNCHANGED <<rows, connection, dbSchema, gqlSchema, dbDriver, compiler, inflight,
                 created>>

\* rendered: the call asked the compiler for the text; again: the call
\* before this one was a getSchema too; same: it returned what is cached
CallGetSchema(refresh) ==
  /\ gqlSchema' = getSchema(refresh)
  /\ lastOp' = [op |-> "getSchema", threw |-> Null, refresh |-> refresh,
                rendered |-> falsyText(gqlSchema) \/ refresh,
                again |-> lastOp.op = "getSchema",
                same |-> gqlSchema' = gqlSchema]
  /\ UNCHANGED <<rows, connection, dbSchema, dbDriver, compiler, resolver, inflight,
                 created, observed>>

CallGetResolvers ==
  /\ lastOp' = [op |-> "getResolvers", threw |-> Null]
  /\ UNCHANGED <<rows, connection, dbSchema, gqlSchema, dbDriver, compiler, resolver,
                 inflight, created, observed>>

\* the execution runtime resolves one field through the map of getResolvers
CallResolve(key) ==
  /\ key \in DOMAIN getResolvers
  /\ lastOp' = [op |-> "resolve", threw |-> Null, key |-> key,
                out |-> resolveField(resolver, getResolvers[key], key[1], key[2])]
  /\ UNCHANGED <<rows, connection, dbSchema, gqlSchema, dbDriver, compiler, resolver,
                 inflight, created, observed>>

\* connect(namespace), lines 160-173, up to the await of the adapter's
\* getSchema; via is the facade call that entered it
connect(namespace, via, limit) ==
  IF connectThrows(connection) # Null
    THEN /\ lastOp' = [op |-> via, threw |-> connectThrows(connection)]
         /\ UNCHANGED <<rows, connection, dbSchema, gqlSchema, dbDriver, compiler,
                        resolver, inflight, created, observed>>
    ELSE /\ created < limit
         /\ Cardinality(inflight) < MaxInflight
         /\ created' = created + 1
         /\ dbDriver' = created + 1
         /\ observed' = [observed EXCEPT !.adapterCalls = @ + 1]
         /\ inflight' = inflight \cup
              {[id |-> created + 1, via |-> via,
                ns |-> namespaceOf(connection, namespace)]}
         /\ lastOp' = [op |-> "suspended", threw |-> Null]
         /\ UNCHANGED <<rows, connection, dbSchema, gqlSchema, compiler, resolver>>

\* bookkeeping: the relation names first compiled for a descriptor, and how
\* many times it was compiled; in connectFulfilled also latest, the descriptor
\* delivered to the most recently issued call among those fulfilled, and
\* namespace, the namespace the descriptor now held was introspected for
noteCompiled(compiled, c) ==
  IF c.builtFrom = Null \/ c.builtFrom # c.dbSchema THEN compiled
  ELSE IF c.builtFrom \in DOMAIN compiled
    THEN [compiled EXCEPT ![c.builtFrom].times = 2]
    ELSE put(compiled, c.builtFrom, [names |-> c.relations, times |-> 1])

\* connect that binds the new descriptor and never calls buildSchema
connectFulfilled_SkipsBuild(call, schema) ==
  /\ call \in inflight
  /\ inflight' = inflight \ {call}
  /\ dbSchema' = schema
  /\ compiler' = [compiler EXCEPT !.dbSchema = schema, !.dbDriver = dbDriver]
  /\ resolver' = [resolver EXCEPT !.dbDriver = dbDriver]
  /\ observed' = observed
  /\ lastOp' = [op |-> call.via, threw |-> Null, call |-> call.id, value |-> schema]
  /\ UNCHANGED <<rows, connection, gqlSchema, dbDriver, created>>

\* lines 173-177 of connect: the adapter's getSchema fulfilled with schema
connectFulfilled(call, schema) ==
  /\ call \in inflight
  /\ inflight' = inflight \ {call}
  /\ dbSchema' = schema
  /\ compiler' = buildSchema([compiler EXCEPT !.dbSchema = schema,
                                              !.dbDriver = dbDriver])
  /\ resolver' = [resolver EXCEPT !.dbDriver = dbDriver]
  /\ observed' = [observed EXCEPT
                    !.builds = @ + 1,
                    !.compiled = noteCompiled(@, compiler'),
                    !.latest = IF call.id > @.id
                                 THEN [id |-> call.id, schema |-> schema] ELSE @,
                    !.namespace = call.ns]
  /\ lastOp' = [op |-> call.via, threw |-> Null, call |-> call.id, value |-> schema]
  /\ UNCHANGED <<rows, connection, gqlSchema, dbDriver, created>>

\* connect that asks the adapter again when its getSchema fails
connectRejected_Retries(call, error) ==
  /\ call \in inflight
  /\ observed' = [observed EXCEPT !.adapterCalls = @ + 1]
  /\ lastOp' = [op |-> "suspended", threw |-> Null]
  /\ UNCHANGED <<rows, connection, dbSchema, gqlSchema, dbDriver, compiler, resolver,
                 inflight, created>>

\* line 173 of connect: the adapter's getSchema rejected with error; nothing
\* catches it, in connect or in getDatabaseSchema
connectRejected(call, error) ==
  /\ call \in inflight
  /\ inflight' = inflight \ {call}
  /\ lastOp' = [op |-> call.via, threw |-> error, call |-> call.id, raised |-> error]
  /\ UNCHANGED <<rows, connection, dbSchema, gqlSchema, dbDriver, compiler, resolver,
                 created, observed>>

\* getDatabaseSchema that connects on every call
getDatabaseSchema_AlwaysConnects(refresh, limit) ==
  connect("", "getDatabaseSchema", limit)

\* getDatabaseSchema(refresh), lines 194-197
getDatabaseSchema(refresh, limit) ==
  IF dbSchema = Null \/ refresh
    THEN connect("", "getDatabaseSchema", limit)
    ELSE /\ lastOp' = [op |-> "getDatabaseSchema", threw |-> Null,
                       call |-> 0, value |-> dbSchema]
         /\ UNCHANGED <<rows, connection, dbSchema, gqlSchema, dbDriver, compiler,
                        resolver, inflight, created, observed>>

\* the filter that selects the row of a primary key: "users:id=1"
pkFilter(t, key) ==
  t \o <<":">> \o primaryKeyOf(t) \o <<"=">> \o str(primaryKeyOf(t), key)

\* filter strings of requests on users
Filters ==
  {pkFilter(N("users"), k) : k \in 1..MaxRows}
    \cup { << >>,
           <<"id", "=", "1">>,
           <<"username", "=", "admin">>,
           <<"posts", ":", "id", "=", "1", "|", "users", ":", "id", "=", "2">>,
           <<"users", ":", "id", "=", "1", "|", "users", ":", "username", "=", "guest">> }

\* pagination strings of requests on users
Paginations ==
  {<<"users", ":", "limit", "=", ToString(n)>> : n \in 0..(MaxLimit + 1)}
    \cup { << >>,
           <<"posts", ":", "limit", "=", "3", "|", "users", ":", "limit", "=", "1">> }

\* the generated field op<Table> is served by the Resolver's default
\* implementation
servedByDefault(type, op, t) ==
  /\ <<N(type), <<op>> \o t>> \in DOMAIN getResolvers
  /\ getResolvers[<<N(type), <<op>> \o t>>] = "default"

\* mutation putItemUsers(id, username)
CallPutItem(id, name) ==
  LET t == N("users")
      args == argsWith(id, name)
      r == putItem(rows[t], columnsOf(compiler.builtFrom, t), primaryKeyOf(t), args)
  IN  /\ servedByDefault("Mutation", "putItem", t)
      /\ DOMAIN r.table \subseteq 1..MaxRows
      /\ rows' = [rows EXCEPT ![t] = r.table]
      /\ lastOp' = [op |-> "putItem", threw |-> Null, args |-> args, row |-> r.row]
      /\ UNCHANGED <<connection, dbSchema, gqlSchema, dbDriver, compiler, resolver,
                     inflight, created, observed>>

\* query getFirstOfUsers(filter); after is the row written by the request
\* served just before, if that was a putItem
CallGetFirstOf(filter) ==
  LET t == N("users")
  IN  /\ servedByDefault("Query", "getFirstOf", t)
      /\ lastOp' = [op |-> "getFirstOf", threw |-> Null, filter |-> filter,
                    out |-> getFirstOf(rows[t], t, filter),
                    after |-> IF lastOp.op = "putItem" THEN lastOp.row ELSE NoRow]
      /\ UNCHANGED <<rows, connection, dbSchema, gqlSchema, dbDriver, compiler,
                     resolver, inflight, created, observed>>

\* query getPageUsers(pagination), without filter
CallGetPage(pagination) ==
  LET t == N("users")
  IN  /\ servedByDefault("Query", "getPage", t)
      /\ lastOp' = [op |-> "getPage", threw |-> Null, pagination |-> pagination,
                    out |-> getPage(rows[t], t, << >>, pagination)]
      /\ UNCHANGED <<rows, connection, dbSchema, gqlSchema, dbDriver, compiler,
                     resolver, inflight, created, observed>>

\* the schema-builder fields whose resolvers issue DDL through the Knex handle
BuilderFields ==
  {"addSchemaColumn", "dropSchemaColumn", "addSchemaTable", "dropSchemaTable"}

\* the adapter's static getAvailableTypes(), and the args.type of a request
AvailableTypes == {"integer", "string"}
ArgTypes == {"integer", "geometry"}

\* context.ioc of a field resolution: the resolver engine and the raw driver
\* handle, which exists once a driver is bound
ioc == [resolver |-> resolver,
        db |-> IF resolver.dbDriver = NoDriver THEN NoConnection ELSE connection]

\* lines 247-257, 270-277, 290-298, 311-316: the DDL call inside try/catch;
\* ddlSucceeds is whether the database accepts it
tryDDL(db, ddlSucceeds) ==
  IF db = NoConnection
    THEN [threw |-> Null, out |-> "false", driverCalled |-> FALSE]
    ELSE [threw |-> Null, out |-> IF ddlSucceeds THEN "true" ELSE "false",
          driverCalled |-> TRUE]

\* the resolvers withBuilder registers (lines 243-258, 268-278, 286-299,
\* 309-317), invoked with context.ioc = ctx and args.type = argType
builderResolver(field, ctx, argType, ddlSucceeds) ==
  IF field \in {"addSchemaColumn", "addSchemaTable"}
    THEN IF ctx.resolver.dbDriver = NoDriver
           THEN [threw |-> "TypeError", out |-> "fault", driverCalled |-> FALSE]
         ELSE IF argType \notin AvailableTypes
           THEN [threw |-> Null, out |-> "false", driverCalled |-> FALSE]
         ELSE tryDDL(ctx.db, ddlSucceeds)
    ELSE tryDDL(ctx.db, ddlSucceeds)

\* the execution runtime resolves a schema-builder field
CallBuilder(field, argType, ddlSucceeds) ==
  /\ <<N("Query"), N(field)>> \in DOMAIN getResolvers
  /\ getResolvers[<<N("Query"), N(field)>>] = "builder." \o field
  /\ LET r == builderResolver(field, ioc, argType, ddlSucceeds)
     IN  lastOp' = [op |-> "builder", threw |-> r.threw, field |-> field,
                    type |-> argType, ddlSucceeds |-> ddlSucceeds,
                    out |-> r.out, driverCalled |-> r.driverCalled]
  /\ UNCHANGED <<rows, connection, dbSchema, gqlSchema, dbDriver, compiler,
                 resolver, inflight, created, observed>>

Fulfil == \E call \in inflight, schema \in SchemaDescriptors : connectFulfilled(call, schema)

Reject == \E call \in inflight, error \in AdapterErrors : connectRejected(call, error)

\* every call of the facade, with every input
Next ==
  \/ \E type \in TypeNames, field \in FieldNames, returns \in Returns, rsv \in Handlers :
       CallAdd(type, field, returns, rsv)
  \/ \E path \in Paths, returns \in Returns, rsv \in Handlers :
       CallAddField(path, returns, rsv)
  \/ \E path \in Paths, subType \in SubTypes : CallAddInput(path, subType)
  \/ CallWithBuilder
  \/ \E validator \in Validators, rejected \in Rejecteds \cup {Null} :
       CallOnBefore(validator, rejected)
  \/ \E refresh \in BOOLEAN : CallGetSchema(refresh)
  \/ CallGetResolvers
  \/ \E key \in DOMAIN getResolvers : CallResolve(key)
  \/ \E namespace \in Namespaces : connect(namespace, "connect", MaxConnects)
  \/ Fulfil
  \/ Reject
  \/ \E refresh \in BOOLEAN : getDatabaseSchema(refresh, MaxConnects)

Spec == Init /\ [][Next]_vars

\* the extension surface: registering fields and inputs, reading the schema
\* text and the resolver map
NextRegistry ==
  \/ \E type \in TypeNames, field \in FieldNames, returns \in Returns, rsv \in Handlers :
       CallAdd(type, field, returns, rsv)
  \/ \E path \in Paths, returns \in Returns, rsv \in Handlers :
       CallAddField(path, returns, rsv)
  \/ \E path \in Paths, subType \in SubTypes : CallAddInput(path, subType)
  \/ \E refresh \in BOOLEAN : CallGetSchema(refresh)
  \/ CallGetResolvers

SpecRegistry ==
  InitWith({"blog-api"}, {NoConnection, [client |-> "pg", database |-> "appdb"]})
    /\ [][NextRegistry]_vars

\* serving: the before-hook and field resolution over overrides, the schema
\* builder's fields and the generated fields of a connected facade
NextHook ==
  \/ \E validator \in Validators, rejected \in Rejecteds \cup {Null} :
       CallOnBefore(validator, rejected)
  \/ \E rsv \in Handlers : CallAdd(N("Users"), N("getUser"), "String", rsv)
  \/ CallWithBuilder
  \/ \E key \in DOMAIN getResolvers : CallResolve(key)
  \/ connect("", "connect", HookConnects)
  \/ Fulfil
  \/ Reject

SpecHook ==
  InitWith({""}, {NoConnection, [client |-> "pg", database |-> "appdb"]})
    /\ [][NextHook]_vars

\* connecting and refreshing, with overlapping calls, and reading the schema
\* text and the resolver map in between
NextConnect ==
  \/ \E namespace \in Namespaces : connect(namespace, "connect", MaxConnects)
  \/ Fulfil
  \/ Reject
  \/ \E refresh \in BOOLEAN : getDatabaseSchema(refresh, MaxConnects)
  \/ \E refresh \in BOOLEAN : CallGetSchema(refresh)
  \/ CallGetResolvers
  \/ CallAdd(N("Query"), N("getUser"), "String", "h1")
  \/ CallAddInput(<<"InputUsers", ".", "username">>, "String")

\* facades over a supported, an unsupported and no handle
InitConnect ==
  \/ InitWith({""}, {[client |-> "pg", database |-> "appdb"],
                     [client |-> "mysql", database |-> Null],
                     [client |-> "sqlite3", database |-> "appdb"]})
  \/ InitWith(ApiNames, {NoConnection})

SpecConnect == InitConnect /\ [][NextConnect]_vars


\* serving the generated fields of the users table of the blog database
NextCrud ==
  \/ connect("", "connect", HookConnects)
  \/ \E call \in inflight : connectFulfilled(call, "blog")
  \/ Reject
  \/ \E id \in 0..MaxRows, name \in {"", "admin", "guest"} : CallPutItem(id, name)
  \/ \E filter \in Filters : CallGetFirstOf(filter)
  \/ \E pagination \in Paginations : CallGetPage(pagination)

SpecCrud ==
  InitWith({""}, {[client |-> "pg", database |-> "appdb"]}) /\ [][NextCrud]_vars

\* the schema builder: its fields resolved before, during and after connect
NextBuilder ==
  \/ CallWithBuilder
  \/ connect("", "connect", MaxConnects)
  \/ Fulfil
  \/ Reject
  \/ \E field \in BuilderFields, argType \in ArgTypes, ddlSucceeds \in BOOLEAN :
       CallBuilder(field, argType, ddlSucceeds)

SpecBuilder ==
  InitWith({""}, {NoConnection, [client |-> "pg", database |-> "appdb"]})
    /\ [][NextBuilder]_vars

----------------------------------------------------------------------------
(* Properties *)

hook == resolver.beforeHook

\* what the before-hook produces in place of a resolver's result
rejectedValue ==
  IF hook.rejected = Null THEN <<Null>> ELSE rejectedReturns(hook.rejected)

\* C1: whenever the validator installed by onBefore returns false for a field
\* resolution of (type, field), no resolver is invoked for that resolution
\* and the value produced is the return value of the configured rejected
\* callback, null when none is configured; for overrides, the schema
\* builder's fields and generated fields alike.
C1_RejectedFieldIsNotResolved ==
  (/\ lastOp.op = "resolve"
   /\ observed.onBefore.called
   /\ ~validatorReturns(observed.onBefore.validator, lastOp.key[1], lastOp.key[2]))
  => /\ lastOp.out.invoked = Null
     /\ lastOp.out.value = rejectedValue

\* a generated field was gated by a validator, with a rejected callback set
C1_Witness ==
  /\ lastOp.op = "resolve"
  /\ observed.onBefore.called
  /\ ~validatorReturns(observed.onBefore.validator, lastOp.key[1], lastOp.key[2])
  /\ lastOp.key \notin DOMAIN resolver.resolvers
  /\ hook.rejected # Null
  /\ \E k \in DOMAIN resolver.resolvers : resolver.resolvers[k] \in Handlers

\* the (type, field) pair a path of the exact form Type.field names
exactPair(path) == <<N(path[1]), N(path[3])>>

isExactPath(path) ==
  /\ Len(path) = 3
  /\ path[2] = "."
  /\ path[1] \notin {".", " "}
  /\ path[3] \notin {".", " "}

\* C2: after add(type, field, returns, handler), or addField('type.field',
\* ...), the resolver of exactly that pair is handler, replacing any earlier
\* one, and the resolver of every other pair is the same as before the call.
C2_AddReplacesExactlyOneResolver ==
  [][/\ lastOp'.op = "add"
        => resolver'.resolvers = put(resolver.resolvers, lastOp'.key, lastOp'.rsv)
     /\ (lastOp'.op = "addField" /\ isExactPath(lastOp'.path))
        => /\ lastOp'.threw = Null
           /\ resolver'.resolvers =
                put(resolver.resolvers, exactPair(lastOp'.path), lastOp'.rsv)]_vars

\* add has replaced a resolver while other fields keep theirs
C2_Witness ==
  /\ lastOp.op = "add"
  /\ resolver.resolvers[lastOp.key] = lastOp.rsv
  /\ \E k \in DOMAIN resolver.resolvers :
       k # lastOp.key /\ resolver.resolvers[k] \in Handlers \ {lastOp.rsv}

\* C3: once add, addField or addInput has changed the registry after a
\* getSchema() call rendered the text, the next getSchema() call, even
\* without refresh, returns text rendered from the changed registry.
C3_SchemaTextFollowsRegistry ==
  lastOp.op = "getSchema"
    => /\ gqlSchema.types = compiler.types
       /\ gqlSchema.inputs = compiler.inputs

\* C4: after a refresh completed with a different Schema Descriptor, the next
\* getSchema() call without refresh returns text rendered from the new
\* descriptor, not the text cached before the refresh.
C4_SchemaTextFollowsRefresh ==
  (/\ lastOp.op = "getSchema"
   /\ ~lastOp.refresh
   /\ gqlSchema.database.from # Null)
  => gqlSchema.database.from = compiler.builtFrom


\* the non-empty dot-separated segments of a path, counted where they begin
countSegments(path) ==
  Cardinality({i \in 1..Len(path) :
                 path[i] # "." /\ (i = 1 \/ path[i - 1] = ".")})

malformed(path) == countSegments(trim(path)) < 2

\* C5: addField and addInput called with a path that, after trimming, has
\* fewer than two non-empty dot-separated segments fail with an error raised
\* to the caller and leave the type registry, the input registry and the
\* resolver map exactly as they were.
C5_MalformedPathFailsFast ==
  [][(lastOp'.op \in {"addField", "addInput"} /\ malformed(lastOp'.path))
       => /\ lastOp'.threw # Null
          /\ compiler'.types = compiler.types
          /\ compiler'.inputs = compiler.inputs
          /\ resolver'.resolvers = resolver.resolvers]_vars

\* a path whose second segment is blank was refused with registrations in place
C5_Witness ==
  /\ lastOp.op = "addField"
  /\ lastOp.path = <<"Users", ".", " ">>
  /\ lastOp.threw # Null
  /\ DOMAIN compiler.inputs # {}
  /\ Cardinality(DOMAIN resolver.resolvers) > 1

\* C6: connect on a facade without a database handle, or whose client key is
\* not one of the known drivers (pg, mysql), fails with an error before any
\* adapter is constructed or any introspection is started, and leaves
\* dbDriver, dbSchema and the compiler's and resolver's driver and
\* descriptor bindings unchanged.
C6_UnusableHandleFailsFast ==
  (connection = NoConnection \/ connection.client \notin {"pg", "mysql"})
    => /\ lastOp.op \in {"connect", "getDatabaseSchema"} => lastOp.threw # Null
       /\ created = 0
       /\ observed.adapterCalls = 0
       /\ inflight = {}
       /\ dbDriver = NoDriver
       /\ dbSchema = Null
       /\ compiler.dbDriver = NoDriver
       /\ compiler.dbSchema = Null
       /\ resolver.dbDriver = NoDriver

\* connect was refused for a handle of an unknown client
C6_Witness ==
  /\ connection # NoConnection
  /\ connection.client = "sqlite3"
  /\ lastOp.op = "connect"
  /\ lastOp.threw = "Database driver not available"

\* C7: when the adapter's getSchema fails during connect or refresh, the same
\* error is delivered unchanged to the caller, the adapter's getSchema was
\* invoked exactly once for that call, buildSchema is not run, and the
\* Schema Descriptor held before (facade and compiler) is still in effect.
C7_IntrospectionErrorPropagates ==
  /\ [](observed.adapterCalls = created)
  /\ [][(lastOp'.op \in {"connect", "getDatabaseSchema"}
           /\ lastOp'.threw \in AdapterErrors)
          => /\ lastOp'.threw = lastOp'.raised
             /\ dbSchema' = dbSchema
             /\ compiler'.dbSchema = compiler.dbSchema
             /\ compiler'.builtFrom = compiler.builtFrom
             /\ compiler'.relations = compiler.relations
             /\ observed'.builds = observed.builds
             /\ observed'.adapterCalls = observed.adapterCalls]_vars

\* a refresh through getDatabaseSchema failed while a descriptor was held
C7_Witness ==
  /\ lastOp.op = "getDatabaseSchema"
  /\ lastOp.threw \in AdapterErrors
  /\ dbSchema # Null
  /\ compiler.dbSchema = dbSchema

\* C8: the before-hook is a single {validator, rejected} pair with
\* last-writer-wins semantics: after any sequence of onBefore calls both the
\* validator and the rejected callback in effect are those of the most
\* recent call, so a rejected callback of an earlier call is never used
\* together with a later call's validator.
C8_LastWriterWins ==
  observed.onBefore.called
    => /\ hook.validator = observed.onBefore.validator
       /\ hook.rejected = observed.onBefore.rejected

\* C9: for a facade constructed without a database handle, getSchema renders
\* only the types and inputs added by hand (the constructor's
\* Query.getAPIName included) and getResolvers returns only the resolvers
\* added by hand; nothing database-backed is emitted.
C9_NoHandleNothingGenerated ==
  connection = NoConnection
    => /\ lastOp.op = "getSchema"
          => /\ gqlSchema.database = OmittedSection
             /\ DOMAIN gqlSchema.types \subseteq DOMAIN compiler.types
             /\ DOMAIN gqlSchema.inputs \subseteq DOMAIN compiler.inputs
       /\ getResolvers = resolver.resolvers

\* a facade without a handle rendered its hand-made types and inputs: the
\* field of the constructor, an added field and an added input
C9_Witness ==
  /\ connection = NoConnection
  /\ lastOp.op = "getSchema"
  /\ <<N("Query"), N("getAPIName")>> \in DOMAIN gqlSchema.types
  /\ <<N("Query"), N("getUser")>> \in DOMAIN gqlSchema.types
  /\ DOMAIN gqlSchema.inputs # {}

\* the relation names compiled for the foreign keys of table t
relationNames(c, t) ==
  {c.relations[k] : k \in {x \in DOMAIN c.relations : x[1] = t}}

\* a table with two foreign keys to one table, or with a self-reference
colliding(d, t) ==
  LET fks == Range(foreignKeysOf(d, t))
  IN  \/ \E a, b \in fks : a # b /\ referencedTable(d, t, a) = referencedTable(d, t, b)
      \/ \E a \in fks : referencedTable(d, t, a) = t

users == rows[N("users")]

\* the supplied primary key names an existing row
matchesExisting(args) ==
  /\ Col("id") \in DOMAIN args
  /\ args[Col("id")] \in DOMAIN users

\* C11: putItem followed immediately by getFirstOf filtered on the primary
\* key of the written row returns a row whose supplied columns equal the
\* written values; when the supplied primary key matches an existing row that
\* row is updated and the row count is unchanged, otherwise a new row is
\* inserted.
C11_PutThenGetRoundTrip ==
  [][/\ lastOp'.op = "putItem"
        => /\ \A c \in DOMAIN lastOp'.args : lastOp'.row[c] = lastOp'.args[c]
           /\ rows'[N("users")][lastOp'.row[Col("id")]] = lastOp'.row
           /\ \A k \in DOMAIN users :
                k # lastOp'.row[Col("id")] => rows'[N("users")][k] = users[k]
           /\ IF matchesExisting(lastOp'.args)
                THEN /\ DOMAIN rows'[N("users")] = DOMAIN users
                     /\ lastOp'.row[Col("id")] = lastOp'.args[Col("id")]
                ELSE /\ lastOp'.row[Col("id")] \notin DOMAIN users
                     /\ DOMAIN rows'[N("users")]
                          = DOMAIN users \cup {lastOp'.row[Col("id")]}
     /\ (/\ lastOp.op = "putItem"
         /\ lastOp'.op = "getFirstOf"
         /\ lastOp'.filter = pkFilter(N("users"), lastOp.row[Col("id")]))
        => /\ lastOp'.out # NoRow
           /\ \A c \in DOMAIN lastOp.args : lastOp'.out[c] = lastOp.args[c]]_vars

\* an existing row was updated with a new username and read back by its key
\* among other rows
C11_Witness ==
  /\ lastOp.op = "getFirstOf"
  /\ lastOp.after # NoRow
  /\ lastOp.filter = pkFilter(N("users"), lastOp.after[Col("id")])
  /\ lastOp.out = lastOp.after
  /\ lastOp.out[Col("id")] = 2
  /\ lastOp.out[Col("username")] = "guest"
  /\ Cardinality(DOMAIN users) = MaxRows

\* the page size N a pagination string asks of users: its last number
askedLimit(pagination) ==
  CHOOSE n \in 0..9 : ToString(n) = pagination[Len(pagination)]

smallest(a, b) == IF a < b THEN a ELSE b

\* C12: getPage with no filter and a pagination limit N returns items of
\* length at most N and a total that is at least the number of items
\* returned; a limit above the configured upper bound is clamped to that
\* bound, the request still succeeding, rather than rejected.
C12_PageWithinLimitAndClamped ==
  (lastOp.op = "getPage" /\ lastOp.pagination # << >>)
    => LET asked == askedLimit(lastOp.pagination)
           page == lastOp.out
       IN  /\ lastOp.threw = Null
           /\ Len(page.items) <= asked
           /\ page.total >= Len(page.items)
           /\ page.total = Cardinality(DOMAIN users)
           /\ Len(page.items) = smallest(page.total, smallest(asked, MaxLimit))

\* a page of more than the upper bound was asked of a table that holds more
\* rows than the bound, and the page came back with as many rows as the bound
C12_Witness ==
  /\ lastOp.op = "getPage"
  /\ lastOp.pagination # << >>
  /\ askedLimit(lastOp.pagination) > MaxLimit
  /\ lastOp.out.total > MaxLimit
  /\ Len(lastOp.out.items) = MaxLimit

started == inflight' \ inflight

\* C14: getDatabaseSchema is lazy: when a Schema Descriptor is loaded and
\* refresh is false it returns the loaded descriptor without invoking connect
\* or the adapter; introspection is started only when no descriptor is loaded
\* or refresh is true, and the value returned is the descriptor held by the
\* facade after that introspection.
C14_DatabaseSchemaIsLazy ==
  [][/\ (getDatabaseSchema(FALSE, MaxConnects) /\ dbSchema # Null)
        => /\ lastOp'.op = "getDatabaseSchema"
           /\ lastOp'.threw = Null
           /\ lastOp'.value = dbSchema
           /\ started = {}
           /\ created' = created
           /\ observed'.adapterCalls = observed.adapterCalls
           /\ dbSchema' = dbSchema
           /\ dbDriver' = dbDriver
     /\ (\E call \in started : call.via = "getDatabaseSchema")
        => /\ dbSchema = Null \/ getDatabaseSchema(TRUE, MaxConnects)
           /\ observed'.adapterCalls = observed.adapterCalls + 1
     /\ (lastOp'.op = "getDatabaseSchema" /\ lastOp'.threw = Null)
        => /\ lastOp'.value # Null
           /\ lastOp'.value = dbSchema']_vars

\* a loaded descriptor was returned without a new introspection, after a
\* getDatabaseSchema had loaded it
C14_Witness ==
  /\ lastOp.op = "getDatabaseSchema"
  /\ lastOp.threw = Null
  /\ lastOp.call = 0
  /\ lastOp.value = dbSchema
  /\ observed.adapterCalls = 1
  /\ inflight = {}

\* C15: getSchema(true) reconnects to the database and rebuilds the database
\* schema: a call to getSchema with refresh set causes the adapter's
\* introspection to run again, so the returned text reflects the database
\* structure at the time of the call.
C15_RefreshedSchemaReintrospects ==
  [][(lastOp'.op = "getSchema" /\ lastOp'.refresh /\ hasConnection
        /\ connectThrows(connection) = Null)
       => /\ observed'.adapterCalls > observed.adapterCalls
          /\ created' > created]_vars

\* C16: every schema-builder resolver registered by withBuilder converts any
\* failure into the benign result false and never propagates a fault: it
\* returns true when the driver operation succeeds and false otherwise, in
\* every state of the facade, including before connect has bound a driver
\* and when the requested column type is not among the adapter's available
\* types, in which case the driver is not called at all.
C16_BuilderNeverFaults ==
  lastOp.op = "builder"
    => /\ lastOp.threw = Null
       /\ lastOp.out \in {"true", "false"}
       /\ lastOp.out = "true" <=> (lastOp.driverCalled /\ lastOp.ddlSucceeds)
       /\ (lastOp.field \in {"addSchemaColumn", "addSchemaTable"}
             /\ lastOp.type \notin AvailableTypes)
          => ~lastOp.driverCalled

\* C17: addField and addInput accept a path exactly when it is of the form
\* Type.field: for an accepted path the registered pair is the two segments
\* of the path, and a path with any other number of non-empty dot-separated
\* segments (one, or three and more such as 'A.B.c') is rejected with the
\* format error and registers nothing.
C17_OnlyTwoSegmentsAccepted ==
  [][lastOp'.op \in {"addField", "addInput"}
       => IF countSegments(trim(lastOp'.path)) = 2
            THEN lastOp'.threw = Null
            ELSE /\ lastOp'.threw # Null
                 /\ compiler'.types = compiler.types
                 /\ compiler'.inputs = compiler.inputs
                 /\ resolver'.resolvers = resolver.resolvers]_vars

\* C18: whenever no connect call is in flight, the facade, the compiler and
\* the resolver are bound to the same adapter instance, or all three to none,
\* and the facade and the compiler hold the same Schema Descriptor, after any
\* sequence of successful and failed connect/getDatabaseSchema calls.
C18_BindingsAgreeAtRest ==
  inflight = {}
    => /\ dbDriver = compiler.dbDriver
       /\ dbDriver = resolver.dbDriver
       /\ dbSchema = compiler.dbSchema

\* C19: when two connect/refresh calls overlap, then once both have completed
\* the Schema Descriptor held by the facade and the compiler is the one
\* introspected for the most recently issued call, whatever order the two
\* introspections finish in.
C19_LastIssuedCallWins ==
  (inflight = {} /\ created > 0 /\ observed.latest.id = created)
    => /\ dbSchema = observed.latest.schema
       /\ compiler.dbSchema = observed.latest.schema

\* C20: a refresh re-introspects the same namespace: after a successful
\* connect(ns) with an explicit namespace ns, getDatabaseSchema(true) invokes
\* the adapter's getSchema for ns again, not for the configured default
\* database or 'public'.
C20_RefreshKeepsNamespace ==
  [][\A call \in started :
       (call.via = "getDatabaseSchema" /\ dbSchema # Null)
         => call.ns = observed.namespace]_vars

=============================================================================
